---- MODULE Spec2Model ----
(***************************************************************************)
(* Model of chemical-interpolation/create-training-sets.ipynb: the OQMD    *)
(* loader/cleaner, the two get_test_data filters, the train/test split and *)
(* the Magpie exporter.                                                    *)
(*                                                                         *)
(* Python strings are sequences of one-character strings, so that join,    *)
(* split, sorted, the formula parser and the text written by to_csv are    *)
(* computed character by character.  delta_e values are whole numbers of   *)
(* eV/atom.  Every code cell of the notebook that changes the kernel's     *)
(* state is one action; lines that only display something (print, head,    *)
(* sample, value_counts, the MAD / std-dev cells) change no state and are  *)
(* left out.                                                               *)
(***************************************************************************)
EXTENDS Integers, Sequences, FiniteSets, TLC

VARIABLES pc, source_file, oqmd_data, my_system, my_pair, get_test_data,
          test_set, train_set, files

vars == <<pc, source_file, oqmd_data, my_system, my_pair, get_test_data,
          test_set, train_set, files>>

(***************************************************************************)
(* Bounds of the model.                                                    *)
(***************************************************************************)
MaxRows == 2
MaxElems == 3

(***************************************************************************)
(* Characters and strings.                                                 *)
(***************************************************************************)
LowerChars == {"a", "e", "l", "s"}
DigitChars == <<"0", "1", "2", "3", "4", "5", "6", "7", "8", "9">>
DigitSet == {DigitChars[i] : i \in 1..10}

\* ord(c) for the characters that occur in element symbols
Ord(c) ==
  CASE c = "-" -> 45
    [] c = "C" -> 67
    [] c = "F" -> 70
    [] c = "K" -> 75
    [] c = "N" -> 78
    [] c = "O" -> 79
    [] c = "a" -> 97
    [] c = "e" -> 101
    [] c = "l" -> 108
    [] c = "s" -> 115

Range(s) == {s[i] : i \in 1..Len(s)}

Min2(a, b) == IF a < b THEN a ELSE b

\* Python's str < str: lexicographic by code point, a proper prefix is smaller
StrLess(a, b) ==
  \E i \in 1..(Min2(Len(a), Len(b)) + 1) :
     /\ \A j \in 1..(i - 1) : a[j] = b[j]
     /\ \/ i = Len(a) + 1 /\ i <= Len(b)
        \/ i <= Len(a) /\ i <= Len(b) /\ Ord(a[i]) < Ord(b[i])

\* sorted(set_of_str)
RECURSIVE SortedStrs(_)
SortedStrs(S) ==
  IF S = {} THEN <<>>
  ELSE LET m == CHOOSE x \in S : \A y \in S \ {x} : StrLess(x, y)
       IN <<m>> \o SortedStrs(S \ {m})

\* sep.join(parts)
RECURSIVE Join(_, _)
Join(parts, sep) ==
  IF Len(parts) = 0 THEN <<>>
  ELSE IF Len(parts) = 1 THEN parts[1]
  ELSE parts[1] \o sep \o Join(Tail(parts), sep)

\* s.split(c) for a one-character separator c
RECURSIVE Split(_, _)
Split(s, c) ==
  IF \A i \in 1..Len(s) : s[i] # c THEN <<s>>
  ELSE LET k == CHOOSE i \in 1..Len(s) :
                   s[i] = c /\ \A j \in 1..(i - 1) : s[j] # c
       IN <<SubSeq(s, 1, k - 1)>> \o Split(SubSeq(s, k + 1, Len(s)), c)

DigitVal(c) == (CHOOSE i \in 1..10 : DigitChars[i] = c) - 1

\* int(digits)
RECURSIVE DigitsToNat(_)
DigitsToNat(s) ==
  IF Len(s) = 0 THEN 0
  ELSE 10 * DigitsToNat(SubSeq(s, 1, Len(s) - 1)) + DigitVal(s[Len(s)])

\* str(n) for n >= 0
RECURSIVE NatToStr(_)
NatToStr(n) ==
  IF n < 10 THEN <<DigitChars[n + 1]>>
  ELSE NatToStr(n \div 10) \o <<DigitChars[(n % 10) + 1]>>

(***************************************************************************)
(* Numeric cells.  A numeric value is [nan |-> FALSE, v |-> n]; the        *)
(* missing-value marker is NaN, and every comparison with NaN is false.    *)
(***************************************************************************)
NaN == [nan |-> TRUE, v |-> 0]
Num(n) == [nan |-> FALSE, v |-> n]

\* the text is an optional sign, digits, and optionally a point and digits
IsNumericText(s) ==
  LET body == IF Len(s) > 0 /\ s[1] = "-" THEN Tail(s) ELSE s
      parts == Split(body, ".")
  IN /\ Len(parts) \in {1, 2}
     /\ \A i \in 1..Len(parts) :
           Len(parts[i]) > 0 /\ Range(parts[i]) \subseteq DigitSet

\* value of a numeric text whose fractional digits are all zero
NumericValue(s) ==
  LET neg == Len(s) > 0 /\ s[1] = "-"
      body == IF neg THEN Tail(s) ELSE s
      whole == DigitsToNat(Split(body, ".")[1])
  IN IF neg THEN 0 - whole ELSE whole

\* cell 3 with a malformed cell read as 0
to_numeric_zero(s) == IF IsNumericText(s) THEN Num(NumericValue(s)) ELSE Num(0)

\* pd.to_numeric(cell, errors='coerce')
to_numeric(s) == IF IsNumericText(s) THEN Num(NumericValue(s)) ELSE NaN

\* repr of a float with a whole value, as to_csv writes it: -3.0
FormatFloat(n) ==
  (IF n < 0 THEN <<"-">> ELSE <<>>) \o NatToStr(IF n < 0 THEN 0 - n ELSE n)
     \o <<".", "0">>

(***************************************************************************)
(* pymatgen's Composition, as the notebook uses it.  A composition keeps   *)
(* its elements in a dict filled by the formula parser, so iterating it    *)
(* yields the symbols in the order of their first appearance in the        *)
(* formula string; elems is that order and amt the amounts.                *)
(***************************************************************************)
\* first position from i on that does not hold a character of S
RECURSIVE RunEnd(_, _, _)
RunEnd(f, i, S) ==
  IF i > Len(f) \/ f[i] \notin S THEN i ELSE RunEnd(f, i + 1, S)

\* the (symbol, amount) matches of ([A-Z][a-z]*)([\d]*) from position i on
RECURSIVE FormulaMatches(_, _)
FormulaMatches(f, i) ==
  IF i > Len(f) THEN <<>>
  ELSE LET j == RunEnd(f, i + 1, LowerChars)
           k == RunEnd(f, j, DigitSet)
           amount == IF k = j THEN 1 ELSE DigitsToNat(SubSeq(f, j, k - 1))
       IN <<[el |-> SubSeq(f, i, j - 1), amt |-> amount]>>
             \o FormulaMatches(f, k)

\* symbols of ms in order of first appearance
RECURSIVE FirstAppearance(_)
FirstAppearance(ms) ==
  IF Len(ms) = 0 THEN <<>>
  ELSE LET front == FirstAppearance(SubSeq(ms, 1, Len(ms) - 1))
           e == ms[Len(ms)].el
       IN IF e \in Range(front) THEN front ELSE Append(front, e)

RECURSIVE SumAmt(_, _)
SumAmt(ms, e) ==
  IF Len(ms) = 0 THEN 0
  ELSE (IF ms[1].el = e THEN ms[1].amt ELSE 0) + SumAmt(Tail(ms), e)

\* Composition(formula): repeated symbols accumulate, zero amounts are dropped
Composition(f) ==
  LET ms == FormulaMatches(f, 1)
      kept == SelectSeq(FirstAppearance(ms), LAMBDA e : SumAmt(ms, e) > 0)
  IN [elems |-> kept, amt |-> [e \in Range(kept) |-> SumAmt(ms, e)]]

RECURSIVE Gcd(_, _)
Gcd(a, b) == IF b = 0 THEN a ELSE Gcd(b, a % b)

RECURSIVE GcdOf(_)
GcdOf(S) ==
  IF S = {} THEN 0
  ELSE LET x == CHOOSE y \in S : TRUE IN Gcd(x, GcdOf(S \ {x}))

\* Pauling electronegativity (times 100) of the elements of the model
Electronegativity(e) ==
  CASE e = <<"K">> -> 82
    [] e = <<"N", "a">> -> 93
    [] e = <<"F", "e">> -> 183
    [] e = <<"O", "s">> -> 220
    [] e = <<"C", "l">> -> 316
    [] e = <<"O">> -> 344

RECURSIVE ByElectronegativity(_)
ByElectronegativity(S) ==
  IF S = {} THEN <<>>
  ELSE LET m == CHOOSE x \in S :
                   \A y \in S \ {x} : Electronegativity(x) < Electronegativity(y)
       IN <<m>> \o ByElectronegativity(S \ {m})

\* Composition.special_formulas, for the elements of the model
SpecialFormula(f) ==
  CASE f = <<"O">> -> <<"O", "2">>
    [] f = <<"C", "l">> -> <<"C", "l", "2">>
    [] f = <<"N", "a", "O">> -> <<"N", "a", "2", "O", "2">>
    [] f = <<"K", "O">> -> <<"K", "2", "O", "2">>
    [] OTHER -> f

RECURSIVE FormulaText(_, _, _)
FormulaText(syms, amt, g) ==
  IF Len(syms) = 0 THEN <<>>
  ELSE LET a == amt[syms[1]] \div g
       IN syms[1] \o (IF a = 1 THEN <<>> ELSE NatToStr(a))
             \o FormulaText(Tail(syms), amt, g)

\* Composition.reduced_formula for formulas of at most two elements (no
\* polyanion grouping): amounts divided by their gcd, symbols ordered by
\* electronegativity, an amount of 1 not written
reduced_formula(c) ==
  IF Len(c.elems) = 0 THEN <<>>
  ELSE SpecialFormula(FormulaText(ByElectronegativity(Range(c.elems)), c.amt,
                                  GcdOf({c.amt[e] : e \in Range(c.elems)})))

\* "-".join([y.symbol for y in x])
SystemLabel(c) == Join(c.elems, <<"-">>)

(***************************************************************************)
(* Inputs of the model: element symbols, composition strings, cell texts,  *)
(* and the targets typed into the my_system and my_pair cells.             *)
(***************************************************************************)
Na == <<"N", "a">>
Cl == <<"C", "l">>
Ox == <<"O">>
Ka == <<"K">>
Os == <<"O", "s">>
Fe == <<"F", "e">>

NumericCols ==
  {"energy_pa", "volume_pa", "magmom_pa", "bandgap", "delta_e", "stability"}

\* composition strings of the filter inputs: both spellings of sodium
\* chloride, and oxygen next to osmium
FilterComps ==
  { Na \o Cl, Cl \o Na, Na \o <<"2">> \o Ox, Ka \o Cl, Os, Ox \o <<"2">> }

\* composition strings of the cleaner inputs: two spellings of one reduced
\* formula
CleanComps == { Na \o Cl, Na \o <<"2">> \o Cl \o <<"2">> }

FilterDeltaCells == { <<"-", "1">>, <<"-", "2">> }

\* malformed, below, on and inside the bounds of the range query
CleanDeltaCells ==
  { <<"x">>, <<"-", "2", "1">>, <<"-", "2", "0">>, <<"-", "1", "9">>,
    <<"4">>, <<"5">> }

\* a row of the source file: delta_e holds d, the columns of bad hold a
\* malformed text, the other numeric columns hold 0
SourceRow(c, d, bad) ==
  [col \in NumericCols \cup {"comp"} |->
     IF col = "comp" THEN c
     ELSE IF col = "delta_e" THEN d
     ELSE IF col \in bad THEN <<"x">> ELSE <<"0">>]

FilterRows == { SourceRow(c, d, {}) : c \in FilterComps, d \in FilterDeltaCells }

CleanRows ==
  { SourceRow(c, d, {}) : c \in CleanComps, d \in CleanDeltaCells }
    \cup { SourceRow(Na \o Cl, d, {col}) :
             d \in { <<"x">>, <<"4">> },
             col \in NumericCols \ {"delta_e"} }

Tables(rows) == UNION { [1..n -> rows] : n \in 0..MaxRows }

\* values typed into my_system: a plain target, a single element, a target
\* with an element no row has, a target with a repeated element
Systems == { <<Na, Cl>>, <<Ox>>, <<Na, Cl, Fe>>, <<Ox, Na, Ox>> }

\* values typed into my_pair
Pairs == { <<Ox>>, <<Cl, Na>>, <<Fe>> }

(***************************************************************************)
(* The notebook.  pc names the next code cell to run.                      *)
(***************************************************************************)
InitWith(rows) ==
  /\ pc = "read_csv"
  /\ source_file \in Tables(rows)
  /\ oqmd_data = <<>>
  /\ my_system = <<>>
  /\ my_pair = <<>>
  /\ get_test_data = "undefined"
  /\ test_set = <<>>
  /\ train_set = <<>>
  /\ files = {}

Init == InitWith(FilterRows)

InitClean == InitWith(CleanRows)

\* data with column col set to vals[i] in row i
WithColumn(data, col, vals) ==
  [i \in 1..Len(data) |->
     [c \in (DOMAIN data[i]) \cup {col} |->
        IF c = col THEN vals[i] ELSE data[i][c]]]

\* cell 2: pd.read_csv gives every row its position as index
ReadCsv ==
  /\ pc = "read_csv"
  /\ oqmd_data' = [i \in 1..Len(source_file) |->
                     [c \in (DOMAIN source_file[i]) \cup {"idx"} |->
                        IF c = "idx" THEN i - 1 ELSE source_file[i][c]]]
  /\ pc' = "to_numeric"
  /\ UNCHANGED <<source_file, my_system, my_pair, get_test_data, test_set,
                 train_set, files>>

\* cell 3: every column but comp goes through pd.to_numeric
ToNumeric ==
  /\ pc = "to_numeric"
  /\ oqmd_data' = [i \in 1..Len(oqmd_data) |->
                     [c \in DOMAIN oqmd_data[i] |->
                        IF c \in NumericCols THEN to_numeric(oqmd_data[i][c])
                        ELSE oqmd_data[i][c]]]
  /\ pc' = "query"
  /\ UNCHANGED <<source_file, my_system, my_pair, get_test_data, test_set,
                 train_set, files>>

LowerBound == -20
UpperBound == 5

\* cell 4 with >= and <= for > and <
InRange_closed(x) == ~x.nan /\ x.v >= LowerBound /\ x.v <= UpperBound

\* delta_e > -20 and delta_e < 5
InRange(x) == ~x.nan /\ x.v > LowerBound /\ x.v < UpperBound

\* cell 4 run after the sort and drop_duplicates of cell 7 instead of before:
\* the lowest row of each reduced formula is kept (a missing delta_e sorts
\* last), and only then is the range queried
QueryRange_after_dedup ==
  /\ pc = "query"
  /\ \E p \in [1..Len(oqmd_data) -> 1..Len(oqmd_data)] :
        LET sorted == [i \in 1..Len(oqmd_data) |-> oqmd_data[p[i]]]
            Formula(r) == reduced_formula(Composition(r.comp))
            Before(a, b) == b.delta_e.nan \/ (~a.delta_e.nan /\ a.delta_e.v <= b.delta_e.v)
            first == SelectSeq([i \in 1..Len(sorted) |-> [pos |-> i, row |-> sorted[i]]],
                               LAMBDA x : \A j \in 1..(x.pos - 1) :
                                             Formula(sorted[j]) # Formula(x.row))
        IN /\ \A i, j \in 1..Len(oqmd_data) : i # j => p[i] # p[j]
           /\ \A i, j \in 1..Len(oqmd_data) : i < j => Before(sorted[i], sorted[j])
           /\ oqmd_data' = SelectSeq([i \in 1..Len(first) |-> first[i].row],
                                     LAMBDA r : ~r.delta_e.nan /\ r.delta_e.v > LowerBound
                                                  /\ r.delta_e.v < UpperBound)
  /\ pc' = "comp_obj"
  /\ UNCHANGED <<source_file, my_system, my_pair, get_test_data, test_set,
                 train_set, files>>

\* cell 4
QueryRange ==
  /\ pc = "query"
  /\ oqmd_data' = SelectSeq(oqmd_data, LAMBDA r : InRange(r.delta_e))
  /\ pc' = "comp_obj"
  /\ UNCHANGED <<source_file, my_system, my_pair, get_test_data, test_set,
                 train_set, files>>

CompObjOf(r) == Composition(r.comp)

\* cell 5
MakeCompObj ==
  /\ pc = "comp_obj"
  /\ oqmd_data' = WithColumn(oqmd_data, "comp_obj",
                            [i \in 1..Len(oqmd_data) |-> CompObjOf(oqmd_data[i])])
  /\ pc' = "pretty_comp"
  /\ UNCHANGED <<source_file, my_system, my_pair, get_test_data, test_set,
                 train_set, files>>

PrettyCompOf(r) == reduced_formula(r.comp_obj)

\* cell 6
MakePrettyComp ==
  /\ pc = "pretty_comp"
  /\ oqmd_data' = WithColumn(oqmd_data, "pretty_comp",
                            [i \in 1..Len(oqmd_data) |-> PrettyCompOf(oqmd_data[i])])
  /\ pc' = "dedup"
  /\ UNCHANGED <<source_file, my_system, my_pair, get_test_data, test_set,
                 train_set, files>>

\* the orders sort_values('delta_e') can leave the rows in: ascending by
\* delta_e, rows of equal delta_e in any order (the default sort is not stable)
SortedOrders(data) ==
  { p \in [1..Len(data) -> 1..Len(data)] :
      /\ \A i, j \in 1..Len(data) : i # j => p[i] # p[j]
      /\ \A i, j \in 1..Len(data) :
            i < j => data[p[i]].delta_e.v <= data[p[j]].delta_e.v }

\* cell 7 with keep='last'
drop_duplicates_last(data) ==
  LET keep == { i \in 1..Len(data) :
                  \A j \in (i + 1)..Len(data) :
                     data[j].pretty_comp # data[i].pretty_comp }
      Nth(k) == CHOOSE i \in keep : Cardinality({j \in keep : j < i}) = k - 1
  IN [k \in 1..Cardinality(keep) |-> data[Nth(k)]]

\* drop_duplicates('pretty_comp', keep='first')
drop_duplicates(data) ==
  LET keep == { i \in 1..Len(data) :
                  \A j \in 1..(i - 1) : data[j].pretty_comp # data[i].pretty_comp }
      Nth(k) == CHOOSE i \in keep : Cardinality({j \in keep : j < i}) = k - 1
  IN [k \in 1..Cardinality(keep) |-> data[Nth(k)]]

\* cell 7
SortDedup ==
  /\ pc = "dedup"
  /\ \E p \in SortedOrders(oqmd_data) :
        oqmd_data' = drop_duplicates([i \in 1..Len(oqmd_data) |-> oqmd_data[p[i]]])
  /\ pc' = "nelems"
  /\ UNCHANGED <<source_file, my_system, my_pair, get_test_data, test_set,
                 train_set, files>>

NelemsOf(r) == Len(r.comp_obj.elems)

\* cell 8
CountElems ==
  /\ pc = "nelems"
  /\ oqmd_data' = WithColumn(oqmd_data, "nelems",
                            [i \in 1..Len(oqmd_data) |-> NelemsOf(oqmd_data[i])])
  /\ pc' = "system"
  /\ UNCHANGED <<source_file, my_system, my_pair, get_test_data, test_set,
                 train_set, files>>

SystemOf(r) == SystemLabel(r.comp_obj)

\* cell 9
MakeSystem ==
  /\ pc = "system"
  /\ oqmd_data' = WithColumn(oqmd_data, "system",
                            [i \in 1..Len(oqmd_data) |-> SystemOf(oqmd_data[i])])
  /\ pc' = "my_system"
  /\ UNCHANGED <<source_file, my_system, my_pair, get_test_data, test_set,
                 train_set, files>>

\* cell 11
SetMySystem ==
  /\ pc = "my_system"
  /\ my_system' \in Systems
  /\ pc' = "def_quaternary"
  /\ UNCHANGED <<source_file, oqmd_data, my_pair, get_test_data, test_set,
                 train_set, files>>

\* cell 12: def get_test_data (subsets of a system)
DefQuaternary ==
  /\ pc = "def_quaternary"
  /\ get_test_data' = "quaternary"
  /\ pc' = "test_quaternary"
  /\ UNCHANGED <<source_file, oqmd_data, my_system, my_pair, test_set,
                 train_set, files>>

\* cell 12 with the label of the whole system only
ConstituentSystems_whole(elems) == { Join(SortedStrs(Range(elems)), <<"-">>) }

\* cell 12 with product(elems, elems), whatever the length of elems
ConstituentSystems_pairs(elems) ==
  { Join(SortedStrs({elems[comb[i]] : i \in 1..2}), <<"-">>) :
      comb \in [1..2 -> 1..Len(elems)] }

\* the labels built from product(*[elems,]*len(elems))
ConstituentSystems(elems) ==
  { Join(SortedStrs({elems[comb[i]] : i \in 1..Len(elems)}), <<"-">>) :
      comb \in [1..Len(elems) -> 1..Len(elems)] }

\* cell 12 with "holds some element of elems" for "is a constituent system"
get_test_data_quaternary_any(data, elems) ==
  SelectSeq(data, LAMBDA r :
     \E k \in 1..Len(elems) : elems[k] \in Range(Split(r.system, "-")))

\* get_test_data of cell 12
get_test_data_quaternary(data, elems) ==
  LET systems == ConstituentSystems(elems)
  IN SelectSeq(data, LAMBDA r : r.system \in systems)

\* a is a substring of b
IsSubstring(a, b) ==
  \E i \in 0..(Len(b) - Len(a)) : SubSeq(b, i + 1, i + Len(a)) = a

\* cell 20 with the split left out: e in x
get_test_data_pairwise_substring(data, elems) ==
  SelectSeq(data, LAMBDA r :
     \A k \in 1..Len(elems) : IsSubstring(elems[k], r.system))

\* get_test_data of cell 20
get_test_data_pairwise(data, elems) ==
  SelectSeq(data, LAMBDA r :
     \A k \in 1..Len(elems) : elems[k] \in Range(Split(r.system, "-")))

\* a call of get_test_data that runs the first definition, whatever cell 20 did
CallGetTestData_first(elems) == get_test_data_quaternary(oqmd_data, elems)

\* a call of get_test_data runs the definition the kernel holds
CallGetTestData(elems) ==
  IF get_test_data = "quaternary" THEN get_test_data_quaternary(oqmd_data, elems)
  ELSE get_test_data_pairwise(oqmd_data, elems)

RECURSIVE SortedInts(_)
SortedInts(S) ==
  IF S = {} THEN <<>>
  ELSE LET m == CHOOSE x \in S : \A y \in S : x <= y
       IN <<m>> \o SortedInts(S \ {m})

IndexOf(data) == {data[i].idx : i \in 1..Len(data)}

\* cell 15 with union for difference
TrainSetOf_union(data, test) ==
  LET labels == SortedInts(IndexOf(data) \cup IndexOf(test))
  IN [k \in 1..Len(labels) |->
        data[CHOOSE i \in 1..Len(data) : data[i].idx = labels[k]]]

\* oqmd_data.loc[oqmd_data.index.difference(test_set.index)]
TrainSetOf(data, test) ==
  LET labels == SortedInts(IndexOf(data) \ IndexOf(test))
  IN [k \in 1..Len(labels) |->
        data[CHOOSE i \in 1..Len(data) : data[i].idx = labels[k]]]

\* cell 13
TestQuaternary ==
  /\ pc = "test_quaternary"
  /\ get_test_data # "undefined"
  /\ test_set' = CallGetTestData(my_system)
  /\ pc' = "train_quaternary"
  /\ UNCHANGED <<source_file, oqmd_data, my_system, my_pair, get_test_data,
                 train_set, files>>

\* cell 15
TrainQuaternary ==
  /\ pc = "train_quaternary"
  /\ train_set' = TrainSetOf(oqmd_data, test_set)
  /\ pc' = "save_test_quaternary"
  /\ UNCHANGED <<source_file, oqmd_data, my_system, my_pair, get_test_data,
                 test_set, files>>

HeaderLine == <<"c", "o", "m", "p", " ", "d", "e", "l", "t", "a", "_", "e">>

\* the text to_csv writes for a delta_e cell (a missing value is written empty)
CellText(x) == IF x.nan THEN <<>> ELSE FormatFloat(x.v)

\* to_csv with the index written as a first column
MagpieLines_index(data) ==
  <<<<" ">> \o HeaderLine>> \o
    [i \in 1..Len(data) |->
       NatToStr(data[i].idx) \o <<" ">> \o data[i].comp \o <<" ">>
          \o CellText(data[i].delta_e)]

\* data[['comp','delta_e']].to_csv(path, index=False, sep=' '): the lines written
MagpieLines(data) ==
  <<HeaderLine>> \o
    [i \in 1..Len(data) |-> data[i].comp \o <<" ">> \o CellText(data[i].delta_e)]

\* the files after save_magpie(data, path); writing a path again replaces it
save_magpie(data, path) ==
  {f \in files : f.path # path} \cup {[path |-> path, lines |-> MagpieLines(data)]}

DatasetsDir == <<"d", "a", "t", "a", "s", "e", "t", "s", "/">>
TestSuffix ==
  <<"_", "t", "e", "s", "t", "_", "s", "e", "t", ".", "d", "a", "t", "a">>
TrainSuffix ==
  <<"_", "t", "r", "a", "i", "n", "_", "s", "e", "t", ".", "d", "a", "t", "a">>

\* os.path.join('datasets', '%s_test_set.data' % name)
TestPath(name) == DatasetsDir \o name \o TestSuffix
TrainPath(name) == DatasetsDir \o name \o TrainSuffix

\* cell 17
SaveTestQuaternary ==
  /\ pc = "save_test_quaternary"
  /\ files' = save_magpie(test_set, TestPath(Join(my_system, <<>>)))
  /\ pc' = "save_train_quaternary"
  /\ UNCHANGED <<source_file, oqmd_data, my_system, my_pair, get_test_data,
                 test_set, train_set>>

\* cell 18
SaveTrainQuaternary ==
  /\ pc = "save_train_quaternary"
  /\ files' = save_magpie(train_set, TrainPath(Join(my_system, <<>>)))
  /\ pc' = "my_pair"
  /\ UNCHANGED <<source_file, oqmd_data, my_system, my_pair, get_test_data,
                 test_set, train_set>>

\* cell 19
SetMyPair ==
  /\ pc = "my_pair"
  /\ my_pair' \in Pairs
  /\ pc' = "def_pairwise"
  /\ UNCHANGED <<source_file, oqmd_data, my_system, get_test_data, test_set,
                 train_set, files>>

\* cell 20: def get_test_data (systems that hold all the elements)
DefPairwise ==
  /\ pc = "def_pairwise"
  /\ get_test_data' = "pairwise"
  /\ pc' = "test_pairwise"
  /\ UNCHANGED <<source_file, oqmd_data, my_system, my_pair, test_set,
                 train_set, files>>

\* cell 21
TestPairwise ==
  /\ pc = "test_pairwise"
  /\ get_test_data # "undefined"
  /\ test_set' = CallGetTestData(my_pair)
  /\ pc' = "train_pairwise"
  /\ UNCHANGED <<source_file, oqmd_data, my_system, my_pair, get_test_data,
                 train_set, files>>

\* cell 23
TrainPairwise ==
  /\ pc = "train_pairwise"
  /\ train_set' = TrainSetOf(oqmd_data, test_set)
  /\ pc' = "save_test_pairwise"
  /\ UNCHANGED <<source_file, oqmd_data, my_system, my_pair, get_test_data,
                 test_set, files>>

\* cell 24
SaveTestPairwise ==
  /\ pc = "save_test_pairwise"
  /\ files' = save_magpie(test_set, TestPath(Join(my_pair, <<"-">>)))
  /\ pc' = "save_train_pairwise"
  /\ UNCHANGED <<source_file, oqmd_data, my_system, my_pair, get_test_data,
                 test_set, train_set>>

\* cell 25
SaveTrainPairwise ==
  /\ pc = "save_train_pairwise"
  /\ files' = save_magpie(train_set, TrainPath(Join(my_pair, <<"-">>)))
  /\ pc' = "done"
  /\ UNCHANGED <<source_file, oqmd_data, my_system, my_pair, get_test_data,
                 test_set, train_set>>

Next ==
  \/ ReadCsv
  \/ ToNumeric
  \/ QueryRange
  \/ MakeCompObj
  \/ MakePrettyComp
  \/ SortDedup
  \/ CountElems
  \/ MakeSystem
  \/ SetMySystem
  \/ DefQuaternary
  \/ TestQuaternary
  \/ TrainQuaternary
  \/ SaveTestQuaternary
  \/ SaveTrainQuaternary
  \/ SetMyPair
  \/ DefPairwise
  \/ TestPairwise
  \/ TrainPairwise
  \/ SaveTestPairwise
  \/ SaveTrainPairwise

Spec == Init /\ [][Next]_vars

(***************************************************************************)
(* The same notebook over the cleaner inputs, with one quaternary target   *)
(* and two pair targets.                                                   *)
(***************************************************************************)
CleanSystems == { <<Na, Cl>> }

CleanPairs == { <<Cl, Na>>, <<Fe>> }

\* cell 11 over the cleaner inputs
SetMySystemClean ==
  /\ pc = "my_system"
  /\ my_system' \in CleanSystems
  /\ pc' = "def_quaternary"
  /\ UNCHANGED <<source_file, oqmd_data, my_pair, get_test_data, test_set,
                 train_set, files>>

\* cell 19 over the cleaner inputs
SetMyPairClean ==
  /\ pc = "my_pair"
  /\ my_pair' \in CleanPairs
  /\ pc' = "def_pairwise"
  /\ UNCHANGED <<source_file, oqmd_data, my_system, get_test_data, test_set,
                 train_set, files>>

NextClean ==
  \/ ReadCsv
  \/ ToNumeric
  \/ QueryRange
  \/ MakeCompObj
  \/ MakePrettyComp
  \/ SortDedup
  \/ CountElems
  \/ MakeSystem
  \/ SetMySystemClean
  \/ DefQuaternary
  \/ TestQuaternary
  \/ TrainQuaternary
  \/ SaveTestQuaternary
  \/ SaveTrainQuaternary
  \/ SetMyPairClean
  \/ DefPairwise
  \/ TestPairwise
  \/ TrainPairwise
  \/ SaveTestPairwise
  \/ SaveTrainPairwise

SpecClean == InitClean /\ [][NextClean]_vars

(***************************************************************************)
(* The same notebook with any element list typed into my_system.           *)
(***************************************************************************)
TargetElems == {Na, Cl, Ox, Fe}

\* every list of 1 to MaxElems target elements, repeats included
ElementLists == UNION { [1..n -> TargetElems] : n \in 1..MaxElems }

EnumComps == { Cl \o Na, Na \o <<"2">> \o Ox }

EnumRows == { SourceRow(c, <<"-", "1">>, {}) : c \in EnumComps }

InitEnum == InitWith(EnumRows)

\* cell 11 with any element list
SetMySystemAny ==
  /\ pc = "my_system"
  /\ my_system' \in ElementLists
  /\ pc' = "def_quaternary"
  /\ UNCHANGED <<source_file, oqmd_data, my_pair, get_test_data, test_set,
                 train_set, files>>

NextEnum ==
  \/ ReadCsv
  \/ ToNumeric
  \/ QueryRange
  \/ MakeCompObj
  \/ MakePrettyComp
  \/ SortDedup
  \/ CountElems
  \/ MakeSystem
  \/ SetMySystemAny
  \/ DefQuaternary
  \/ TestQuaternary
  \/ TrainQuaternary
  \/ SaveTestQuaternary
  \/ SaveTrainQuaternary
  \/ SetMyPair
  \/ DefPairwise
  \/ TestPairwise
  \/ TrainPairwise
  \/ SaveTestPairwise
  \/ SaveTrainPairwise

SpecEnum == InitEnum /\ [][NextEnum]_vars

(***************************************************************************)
(* Properties.                                                             *)
(***************************************************************************)
\* positions at which test_set holds get_test_data(my_system) of cell 13
QuaternaryTestHeld ==
  pc \in {"train_quaternary", "save_test_quaternary", "save_train_quaternary",
          "my_pair", "def_pairwise", "test_pairwise"}

\* positions at which test_set and train_set both come from my_system
QuaternarySplitHeld ==
  pc \in {"save_test_quaternary", "save_train_quaternary", "my_pair",
          "def_pairwise", "test_pairwise"}

\* positions at which test_set holds get_test_data(my_pair) of cell 21
PairwiseTestHeld ==
  pc \in {"train_pairwise", "save_test_pairwise", "save_train_pairwise", "done"}

\* positions at which test_set and train_set both come from my_pair
PairwiseSplitHeld == pc \in {"save_test_pairwise", "save_train_pairwise", "done"}

\* positions after the cleaner (cells 2 to 9) has run
Cleaned == QuaternaryTestHeld \/ PairwiseTestHeld
             \/ pc \in {"my_system", "def_quaternary", "test_quaternary"}

\* the element set of an entry, from its composition string
ElemSet(r) == Range(Composition(r.comp).elems)

\* C1: every entry the quaternary get_test_data(E) returns has an element
\* set that is a non-empty subset of E
C1_QuaternarySound ==
  QuaternaryTestHeld =>
    \A i \in 1..Len(test_set) :
       /\ ElemSet(test_set[i]) # {}
       /\ ElemSet(test_set[i]) \subseteq Range(my_system)
       /\ test_set[i] \in Range(oqmd_data)

\* the quaternary filter returned some entries and left others out
C1_Witness ==
  /\ QuaternaryTestHeld
  /\ Len(test_set) > 0
  /\ Len(test_set) < Len(oqmd_data)

\* C2: every entry whose element set is a non-empty subset of E is in the
\* result of the quaternary get_test_data(E), whatever the order of the
\* elements in its composition string
C2_QuaternaryComplete ==
  QuaternaryTestHeld =>
    \A i \in 1..Len(oqmd_data) :
       (ElemSet(oqmd_data[i]) # {} /\ ElemSet(oqmd_data[i]) \subseteq Range(my_system))
          => oqmd_data[i] \in Range(test_set)

\* C3: the pairwise get_test_data(P) returns exactly the entries whose
\* element set holds every element of P, by whole symbol
C3_PairwiseExact ==
  PairwiseTestHeld =>
    test_set = SelectSeq(oqmd_data, LAMBDA r : Range(my_pair) \subseteq ElemSet(r))

\* the target O selected an entry and passed over an entry with Os but no O
C3_Witness ==
  /\ PairwiseTestHeld
  /\ my_pair = <<Ox>>
  /\ Len(test_set) > 0
  /\ \E i \in 1..Len(oqmd_data) :
        /\ Os \in ElemSet(oqmd_data[i])
        /\ Ox \notin ElemSet(oqmd_data[i])
        /\ oqmd_data[i] \notin Range(test_set)

\* test and train are disjoint and hold every row of data once, by index
IsPartition(data, test, train) ==
  /\ IndexOf(test) \cap IndexOf(train) = {}
  /\ IndexOf(test) \cup IndexOf(train) = IndexOf(data)
  /\ Len(test) + Len(train) = Len(data)
  /\ Range(test) \cup Range(train) = Range(data)

\* C4: for either filter, train and test are disjoint and together hold
\* every row of the cleaned collection exactly once, by row identity
C4_Partition ==
  (QuaternarySplitHeld \/ PairwiseSplitHeld) =>
     IsPartition(oqmd_data, test_set, train_set)

\* a split with rows on both sides
C4_Witness ==
  /\ PairwiseSplitHeld
  /\ Len(test_set) > 0
  /\ Len(train_set) > 0

\* the numeric value of the delta_e cell of row k of the source file
SourceDelta(k) == to_numeric(source_file[k].delta_e)

\* the canonical reduced formula of row k of the source file
SourceFormula(k) == reduced_formula(Composition(source_file[k].comp))

\* the rows of the source file that pass the range query, which are the rows
\* deduplication works on
InRangeSourceRows ==
  { k \in 1..Len(source_file) :
      ~SourceDelta(k).nan /\ SourceDelta(k).v > -20 /\ SourceDelta(k).v < 5 }

\* C5: after the cleaner has run no two distinct entries share a canonical
\* reduced formula, and the entry kept for a reduced formula has the minimum
\* delta_e among the duplicates of that formula
C5_Deduplicated ==
  Cleaned =>
    /\ \A i, j \in 1..Len(oqmd_data) :
          i # j => reduced_formula(Composition(oqmd_data[i].comp))
                     # reduced_formula(Composition(oqmd_data[j].comp))
    /\ \A i \in 1..Len(oqmd_data) :
          /\ oqmd_data[i].idx + 1 \in InRangeSourceRows
          /\ oqmd_data[i].comp = source_file[oqmd_data[i].idx + 1].comp
          /\ oqmd_data[i].delta_e = SourceDelta(oqmd_data[i].idx + 1)
    /\ \A k \in InRangeSourceRows :
          \E i \in 1..Len(oqmd_data) :
             /\ reduced_formula(Composition(oqmd_data[i].comp)) = SourceFormula(k)
             /\ oqmd_data[i].delta_e.v <= SourceDelta(k).v

\* two source rows of one reduced formula, written differently, with different
\* delta_e in range: one entry is left
C5_Witness ==
  /\ Cleaned
  /\ Len(oqmd_data) = 1
  /\ \E k, l \in InRangeSourceRows :
        /\ SourceFormula(k) = SourceFormula(l)
        /\ source_file[k].comp # source_file[l].comp
        /\ SourceDelta(k).v < SourceDelta(l).v

\* positions after the range query of cell 4
Queried == Cleaned \/ pc \in {"comp_obj", "pretty_comp", "dedup", "nelems", "system"}

InOpenRange(x) == ~x.nan /\ -20 < x.v /\ x.v < 5

\* C6: every entry of the cleaned collection, of the test set and of the train
\* set has delta_e strictly between -20 and 5; rows with delta_e equal to -20
\* or to 5 are dropped
C6_Range ==
  Queried =>
    /\ \A i \in 1..Len(oqmd_data) : InOpenRange(oqmd_data[i].delta_e)
    /\ \A i \in 1..Len(test_set) : InOpenRange(test_set[i].delta_e)
    /\ \A i \in 1..Len(train_set) : InOpenRange(train_set[i].delta_e)
    /\ \A k \in 1..Len(source_file) :
          (~SourceDelta(k).nan /\ SourceDelta(k).v \in {-20, 5})
             => (k - 1) \notin IndexOf(oqmd_data)

\* a source row on a bound was dropped and another row is in the train set
C6_Witness ==
  /\ pc = "done"
  /\ \E k \in 1..Len(source_file) : ~SourceDelta(k).nan /\ SourceDelta(k).v \in {-20, 5}
  /\ Len(train_set) > 0

\* C7: the system label of an entry is its sorted unique element symbols
\* joined by hyphens, so two entries with the same element set have the same
\* label whatever the stoichiometry and the order of the elements in the
\* composition string
C7_SystemCanonical ==
  Cleaned =>
    \A i \in 1..Len(oqmd_data) :
       /\ oqmd_data[i].system = Join(SortedStrs(ElemSet(oqmd_data[i])), <<"-">>)
       /\ \A c \in FilterComps \cup CleanComps :
             Range(Composition(c).elems) = ElemSet(oqmd_data[i])
                => SystemLabel(Composition(c)) = oqmd_data[i].system

\* the target elements that occur in no entry of the cleaned collection
Absent(elems) ==
  { e \in Range(elems) : \A i \in 1..Len(oqmd_data) : e \notin ElemSet(oqmd_data[i]) }

\* the entries of the cleaned collection that carry the system label of S
RowsOfSubset(S) ==
  { r \in Range(oqmd_data) : r.system = Join(SortedStrs(S), <<"-">>) }

MalformedOther(k) ==
  { col \in NumericCols \ {"delta_e"} : to_numeric(source_file[k][col]).nan }

\* positions after cell 3 and before the range query
Coerced == pc = "query"

\* positions at which the collection holds the rows left by the range query
\* and not yet deduplicated
Undeduplicated == pc \in {"comp_obj", "pretty_comp", "dedup"}

\* C9 as stated: a malformed numeric cell becomes the missing-value marker and
\* the load goes on; a row with a missing delta_e is never in the cleaned
\* collection; a row whose only malformed cell is in another numeric column
\* is in the cleaned collection when its delta_e is in range
C9_MalformedCells ==
  /\ Coerced =>
       /\ Len(oqmd_data) = Len(source_file)
       /\ \A k \in 1..Len(source_file) : \A col \in NumericCols :
             ~IsNumericText(source_file[k][col]) => oqmd_data[k][col] = NaN
  /\ Queried =>
       \A k \in 1..Len(source_file) :
          ~IsNumericText(source_file[k].delta_e) => (k - 1) \notin IndexOf(oqmd_data)
  /\ Cleaned =>
       \A k \in InRangeSourceRows :
          MalformedOther(k) # {} => (k - 1) \in IndexOf(oqmd_data)

\* C9 as amended: as C9, but a row whose only malformed cell is in another
\* numeric column and whose delta_e is in range passes the range query, and
\* is missing from the cleaned collection only when deduplication kept a row
\* of the same reduced formula with delta_e no greater
C9_MalformedCellsAmended ==
  /\ Coerced =>
       /\ Len(oqmd_data) = Len(source_file)
       /\ \A k \in 1..Len(source_file) : \A col \in NumericCols :
             ~IsNumericText(source_file[k][col]) => oqmd_data[k][col] = NaN
  /\ Queried =>
       \A k \in 1..Len(source_file) :
          ~IsNumericText(source_file[k].delta_e) => (k - 1) \notin IndexOf(oqmd_data)
  /\ Undeduplicated =>
       \A k \in InRangeSourceRows :
          MalformedOther(k) # {} => (k - 1) \in IndexOf(oqmd_data)
  /\ Cleaned =>
       \A k \in InRangeSourceRows :
          MalformedOther(k) # {} =>
             \/ (k - 1) \in IndexOf(oqmd_data)
             \/ \E i \in 1..Len(oqmd_data) :
                   /\ oqmd_data[i].pretty_comp = SourceFormula(k)
                   /\ oqmd_data[i].delta_e.v <= SourceDelta(k).v

\* a row with a malformed delta_e was dropped, and a row with a malformed cell
\* in another column is in the cleaned collection with that cell missing
C9_Witness ==
  /\ Cleaned
  /\ \E k \in 1..Len(source_file) : ~IsNumericText(source_file[k].delta_e)
  /\ \E i \in 1..Len(oqmd_data) :
        /\ MalformedOther(oqmd_data[i].idx + 1) # {}
        /\ \A col \in MalformedOther(oqmd_data[i].idx + 1) : oqmd_data[i][col] = NaN

\* what reading a line of the exported file back gives
ReadBack(line) ==
  LET fields == Split(line, " ")
  IN [comp |-> fields[1], delta_e |-> to_numeric(fields[2])]

\* the file at path holds the header and one two-field line per row of data,
\* in the order of data, that reads back as the row's comp and delta_e
Exported(path, data) ==
  /\ Cardinality({f \in files : f.path = path}) = 1
  /\ \A f \in files :
        f.path = path =>
          /\ Len(f.lines) = Len(data) + 1
          /\ Split(f.lines[1], " ") =
               << <<"c", "o", "m", "p">>, <<"d", "e", "l", "t", "a", "_", "e">> >>
          /\ \A i \in 1..Len(data) :
                /\ Len(Split(f.lines[i + 1], " ")) = 2
                /\ ReadBack(f.lines[i + 1]) =
                     [comp |-> data[i].comp, delta_e |-> data[i].delta_e]

\* C10: save_magpie writes a header naming comp and delta_e and one line per
\* row of its input, in the input's order, with the composition string and
\* delta_e only; reading the file back gives those two fields of every row
\* in the same order
C10_ExportRoundTrip ==
  /\ pc = "save_train_quaternary" =>
       Exported(TestPath(Join(my_system, <<>>)), test_set)
  /\ pc = "my_pair" => Exported(TrainPath(Join(my_system, <<>>)), train_set)
  /\ pc = "save_train_pairwise" =>
       Exported(TestPath(Join(my_pair, <<"-">>)), test_set)
  /\ pc = "done" => Exported(TrainPath(Join(my_pair, <<"-">>)), train_set)

\* a train set of two rows, not in the order of the cleaned collection, was
\* written
C10_Witness ==
  /\ pc = "done"
  /\ Len(train_set) = 2
  /\ train_set # oqmd_data
  /\ train_set[1].delta_e # train_set[2].delta_e

\* the code cells in the order of the notebook, by the position that runs them
CellOrder ==
  << "read_csv", "to_numeric", "query", "comp_obj", "pretty_comp", "dedup",
     "nelems", "system", "my_system", "def_quaternary", "test_quaternary",
     "train_quaternary", "save_test_quaternary", "save_train_quaternary",
     "my_pair", "def_pairwise", "test_pairwise", "train_pairwise",
     "save_test_pairwise", "save_train_pairwise", "done" >>

CellRank(p) == CHOOSE i \in 1..Len(CellOrder) : CellOrder[i] = p

\* the cells that call save_magpie
ExportCells ==
  {"save_test_quaternary", "save_train_quaternary", "save_test_pairwise",
   "save_train_pairwise"}

\* test_set and train_set hold the subset-filter split of my_system
HoldsQuaternarySplit ==
  /\ test_set = get_test_data_quaternary(oqmd_data, my_system)
  /\ IsPartition(oqmd_data, test_set, train_set)

\* test_set and train_set hold the superset-filter split of my_pair
HoldsPairwiseSplit ==
  /\ test_set = get_test_data_pairwise(oqmd_data, my_pair)
  /\ IsPartition(oqmd_data, test_set, train_set)

\* the step writes data to the file at path
Writes(path, data) ==
  \E f \in files' : f.path = path /\ f.lines = MagpieLines(data)

\* C11: the cells run top to bottom, each once, so the exporter runs in
\* exactly the four export cells; at each export test_set and train_set hold
\* the split of the target the file is named after: the files named by the
\* concatenated my_system get the subset-filter test set and its complement,
\* the files named by the hyphen-joined my_pair get the superset-filter test
\* set and its complement
C11_ExportOrder ==
  [][ /\ CellRank(pc') = CellRank(pc) + 1
      /\ files' # files => pc \in ExportCells
      /\ pc = "save_test_quaternary" =>
           /\ HoldsQuaternarySplit
           /\ Writes(TestPath(Join(my_system, <<>>)), test_set)
      /\ pc = "save_train_quaternary" =>
           /\ HoldsQuaternarySplit
           /\ Writes(TrainPath(Join(my_system, <<>>)), train_set)
      /\ pc = "save_test_pairwise" =>
           /\ HoldsPairwiseSplit
           /\ Writes(TestPath(Join(my_pair, <<"-">>)), test_set)
      /\ pc = "save_train_pairwise" =>
           /\ HoldsPairwiseSplit
           /\ Writes(TrainPath(Join(my_pair, <<"-">>)), train_set)
    ]_vars

\* all four exports are done, into four files, and the test file of the
\* quaternary and the test file of the pair hold different rows
C11_Witness ==
  /\ pc = "done"
  /\ Cardinality(files) = 4
  /\ \E f, g \in files :
        /\ f.path = TestPath(Join(my_system, <<>>))
        /\ g.path = TestPath(Join(my_pair, <<"-">>))
        /\ Len(f.lines) > 1
        /\ Len(g.lines) > 1
        /\ f.lines # g.lines

\* the labels of the non-empty subsets of the elements of elems
PowerSetLabels(elems) ==
  { Join(SortedStrs(S), <<"-">>) : S \in (SUBSET Range(elems)) \ {{}} }

\* C12: for every element list E of length n >= 1, the labels the quaternary
\* filter builds from the n-fold product of E are the labels of the non-empty
\* subsets of E, 2^k - 1 of them when E has k distinct elements, and the
\* filter has just returned the entries carrying one of them
C12_SubsetEnumeration ==
  pc = "train_quaternary" =>
    /\ Len(my_system) >= 1
    /\ ConstituentSystems(my_system) = PowerSetLabels(my_system)
    /\ Cardinality(ConstituentSystems(my_system))
         = 2 ^ Cardinality(Range(my_system)) - 1
    /\ test_set = SelectSeq(oqmd_data,
                            LAMBDA r : r.system \in PowerSetLabels(my_system))

\* a list of three distinct elements, and a test set gathered from two of
\* its proper subsets
C12_Witness ==
  /\ pc = "train_quaternary"
  /\ Len(my_system) = 3
  /\ Cardinality(Range(my_system)) = 3
  /\ Len(test_set) = 2

\* C13: the range filter comes before deduplication, so every reduced formula
\* with a source row in (-20, 5) keeps exactly one entry, the lowest of its
\* in-range rows, also when its lowest source row is out of range; a formula
\* with only out-of-range rows has no entry
C13_RangeBeforeDedup ==
  Cleaned =>
    LET formula == [k \in 1..Len(source_file) |-> SourceFormula(k)]
        delta == [k \in 1..Len(source_file) |-> SourceDelta(k)]
        inRange == { k \in 1..Len(source_file) :
                       ~delta[k].nan /\ delta[k].v > -20 /\ delta[k].v < 5 }
        kept == [i \in 1..Len(oqmd_data) |->
                   reduced_formula(Composition(oqmd_data[i].comp))]
    IN \A F \in { formula[k] : k \in 1..Len(source_file) } :
          LET rows == { k \in inRange : formula[k] = F }
              entries == { i \in 1..Len(oqmd_data) : kept[i] = F }
          IN IF rows = {}
             THEN entries = {}
             ELSE /\ Cardinality(entries) = 1
                  /\ \A i \in entries :
                        /\ oqmd_data[i].idx + 1 \in rows
                        /\ \A k \in rows : oqmd_data[i].delta_e.v <= delta[k].v

\* a formula whose lowest source row is below the range and whose other row
\* is in range has kept the in-range row
C13_Witness ==
  /\ Cleaned
  /\ \E k, l \in 1..Len(source_file) :
        /\ SourceFormula(k) = SourceFormula(l)
        /\ ~SourceDelta(k).nan /\ SourceDelta(k).v <= -20
        /\ l \in InRangeSourceRows
        /\ \E i \in 1..Len(oqmd_data) : oqmd_data[i].idx = l - 1

====
